---- MODULE Spec2Model ----
(***************************************************************************)
(* BankingRecommendationSystem (src/banking_recommender.py): the loaded    *)
(* transaction records, the customer x product count matrix derived from   *)
(* them, and the recommendation queries answered from both.                *)
(*                                                                         *)
(* A DataFrame of transactions is the sequence of its rows, each row       *)
(* reduced to the two columns the engine reads (customer_ID, product_used);*)
(* transaction_amount is populated in every row, so that pivot_table's     *)
(* count of it is the count of rows.  Python's None is the record with     *)
(* none = TRUE.  How sort_values / value_counts order equal keys depends on  *)
(* the build and is fixed for a run (tie_order); cosine similarities are   *)
(* compared exactly, as squared rationals.                                 *)
(***************************************************************************)
EXTENDS Integers, Sequences, FiniteSets, TLC

\* ---------------------------------------------------------------- bounds
MaxRecs == 3           \* rows of an uploaded file that loads
MaxFailedRecs == 0     \* rows of an uploaded file on which to_datetime raises
MaxTopN == 3           \* top_n ranges over 0..MaxTopN

\* ------------------------------------------------------- static catalog
\* names of BANKING_PRODUCTS, in declared order
BANKING_PRODUCTS ==
    << "basic_checking_account", "premium_checking_account", "savings_account",
       "high_yield_savings_account", "credit_card", "platinum_credit_card",
       "personal_loan", "low_interest_loan", "investment_account",
       "retirement_account" >>

\* position of a product name in Python's str order (what pandas sorts
\* column labels by)
NameRank(p) ==
    CASE p = "basic_checking_account" -> 1
      [] p = "credit_card" -> 2
      [] p = "high_yield_savings_account" -> 3
      [] p = "investment_account" -> 4
      [] p = "low_interest_loan" -> 5
      [] p = "personal_loan" -> 6
      [] p = "platinum_credit_card" -> 7
      [] p = "premium_checking_account" -> 8
      [] p = "retirement_account" -> 9
      [] p = "savings_account" -> 10

\* ---------------------------------------------------------------- inputs
\* the customer ids and product names that occur in uploaded files and in
\* queries; the two products' declared order is the reverse of their name order
Customers == {1, 2}
Products == {"savings_account", "credit_card"}
Rows == [customer_ID : Customers, product_used : Products]
RowSeqs(n) == UNION {[1..k -> Rows] : k \in 0..n}
TopNs == 0..MaxTopN

\* the rows of a file that read_csv reads and on which to_datetime raises:
\* what the model keeps of it is that transaction_data takes its rows
FailedRowSeqs(n) ==
    UNION {[1..k -> {[customer_ID |-> 1, product_used |-> "savings_account"]}] : k \in 0..n}

NoFile == [given |-> FALSE, readable |-> FALSE, parseable |-> FALSE, rows |-> <<>>]
Unreadable == [given |-> TRUE, readable |-> FALSE, parseable |-> FALSE, rows |-> <<>>]
Files ==
    {NoFile, Unreadable}
      \cup [given : {TRUE}, readable : {TRUE}, parseable : {TRUE}, rows : RowSeqs(MaxRecs)]
      \cup [given : {TRUE}, readable : {TRUE}, parseable : {FALSE}, rows : FailedRowSeqs(MaxFailedRecs)]

\* the customers and products of the datasets that rank peers: more customers
\* than the five that index[1:6] keeps, and a usage per customer
PeerCustomers == 1..7
PeerProducts == {"credit_card", "personal_loan", "savings_account"}
\* what a customer may have used: customer 1 one product once, the others the
\* same product twice (a row proportional to customer 1's), and either of
\* them two products, or another product only
Usages(c) ==
    { IF c = 1 THEN <<"credit_card">> ELSE <<"credit_card", "credit_card">>,
      <<"credit_card", "savings_account">>, <<"personal_loan">> }

RECURSIVE UsageRows(_, _)
\* the rows of customers 1..n, customer by customer, for the usage u[c] of each
UsageRows(u, n) ==
    IF n = 0 THEN <<>>
    ELSE UsageRows(u, n - 1)
           \o [i \in DOMAIN u[n] |-> [customer_ID |-> n, product_used |-> u[n][i]]]

PeerRowSeqs ==
    {UsageRows(u, Cardinality(PeerCustomers)) :
        u \in {v \in [PeerCustomers -> UNION {Usages(c) : c \in PeerCustomers}] :
                  \A c \in PeerCustomers : v[c] \in Usages(c)}}

\* --------------------------------------------------------------- helpers
Range(s) == {s[i] : i \in DOMAIN s}
Min(a, b) == IF a <= b THEN a ELSE b
\* the slice taken one entry too long: s[:n + 1]
TakeOneMore(s, n) == SubSeq(s, 1, Min(n + 1, Len(s)))
\* Python's s[:n] for n >= 0
Take(s, n) == SubSeq(s, 1, Min(n, Len(s)))
Front(s) == SubSeq(s, 1, Len(s) - 1)
NoDup(s) == \A i, j \in DOMAIN s : s[i] = s[j] => i = j

RECURSIVE SelectNotIn(_, _)
\* [x for x in s if x not in S]
SelectNotIn(s, S) ==
    IF s = <<>> THEN <<>>
    ELSE IF Head(s) \in S THEN SelectNotIn(Tail(s), S)
    ELSE <<Head(s)>> \o SelectNotIn(Tail(s), S)

\* values are kept as fractions num/den with den > 0
Frac(n) == [num |-> n, den |-> 1]
Gt(a, b) == a.num * b.den > b.num * a.den

\* how the build's sort (kind="quicksort", not stable by contract) leaves
\* equal keys: in their original order, as numpy's insertion sort of short
\* arrays does, or not, as its vectorised sort may; the reverse order stands
\* for the second
TieOrders == {"kept", "reversed"}

RECURSIVE sort_values(_, _, _)
\* Series.sort_values(ascending=False): labels in descending order of val,
\* labels of equal value in the order the build's sort leaves them
sort_values(labels, val, ties) ==
    IF labels = <<>> THEN <<>>
    ELSE LET h == Head(labels)
             rest == sort_values(Tail(labels), val, ties)
             k == Cardinality({i \in DOMAIN rest :
                                  IF ties = "kept" THEN Gt(val[rest[i]], val[h])
                                  ELSE ~Gt(val[h], val[rest[i]])})
         IN  SubSeq(rest, 1, k) \o <<h>> \o SubSeq(rest, k + 1, Len(rest))

RECURSIVE SortedCustomers(_)
\* customer ids in ascending order
SortedCustomers(S) ==
    IF S = {} THEN <<>>
    ELSE LET m == CHOOSE x \in S : \A y \in S : x <= y
         IN  <<m>> \o SortedCustomers(S \ {m})

RECURSIVE SortedNames(_)
\* product names in ascending str order
SortedNames(S) ==
    IF S = {} THEN <<>>
    ELSE LET m == CHOOSE x \in S : \A y \in S : NameRank(x) <= NameRank(y)
         IN  <<m>> \o SortedNames(S \ {m})

\* every customer id, and every product name, of the inputs in ascending order
CustomersAscending == SortedCustomers(Customers \cup PeerCustomers)
ProductsAscending == SortedNames(Products \cup PeerProducts)

\* ------------------------------------------------------------ DataFrames
NoneValue == [none |-> TRUE, rows |-> <<>>]
DataFrame(rows) == [none |-> FALSE, rows |-> rows]
NoneMatrix == [none |-> TRUE, index |-> <<>>, columns |-> <<>>, cell |-> <<>>]

\* the group's aggregate with aggfunc="nunique" on a constant column: 1 for
\* every group that has a row
GroupCountPresence(rows, customer_ID, product) ==
    IF \E i \in DOMAIN rows :
           rows[i].customer_ID = customer_ID /\ rows[i].product_used = product
    THEN 1 ELSE 0

\* groupby([customer_ID, product_used]) with aggfunc="count": the number of
\* rows of the group (customer_ID, product_used)
GroupCount(rows, customer_ID, product) ==
    Cardinality({i \in DOMAIN rows :
                    /\ rows[i].customer_ID = customer_ID
                    /\ rows[i].product_used = product})

\* DataFrame.pivot_table(index="customer_ID", columns="product_used",
\* values="transaction_amount", aggfunc="count", fill_value=0): a row per
\* customer and a column per product of the groups, both in ascending order
\* (the ascending list of all labels, cut down to those of a group), the
\* groups' counts in the cells and fill_value in the cells of no group
pivot_table(rows) ==
    LET idx == {rows[i].customer_ID : i \in DOMAIN rows}
        cols == {rows[i].product_used : i \in DOMAIN rows}
    IN  [none |-> FALSE,
         index |-> SelectSeq(CustomersAscending, LAMBDA c : c \in idx),
         columns |-> SelectSeq(ProductsAscending, LAMBDA p : p \in cols),
         cell |-> [k \in idx \X cols |-> GroupCount(rows, k[1], k[2])]]

\* ------------------------------------------------------------ the engine
RECURSIVE SumOver(_, _)
\* the sum of f over the entries of the sequence s
SumOver(s, f) == IF s = <<>> THEN 0 ELSE f[Head(s)] + SumOver(Tail(s), f)

Dot(m, x, y) == SumOver(m.columns, [p \in Range(m.columns) |-> m.cell[<<x, p>>] * m.cell[<<y, p>>]])

\* sklearn's cosine_similarity(matrix)[x][y], squared (counts are >= 0, so the
\* order of the squares is the order of the similarities); a zero row has
\* similarity 0 to every row
cosine_similarity(m, x, y) ==
    LET d == Dot(m, x, y)
        n == Dot(m, x, x) * Dot(m, y, y)
    IN  IF n = 0 THEN Frac(0) ELSE [num |-> d * d, den |-> n]

\* Series.value_counts().index: the distinct values in descending order of
\* their number of occurrences; the hash table lists each value at its
\* first occurrence, and the sort orders them by count
RECURSIVE unique(_)
unique(s) ==
    IF s = <<>> THEN <<>>
    ELSE LET u == unique(Front(s))
             x == s[Len(s)]
         IN  IF x \in Range(u) THEN u ELSE Append(u, x)

Occurrences(s, x) == Cardinality({i \in DOMAIN s : s[i] = x})

\* value_counts with sort=False: the distinct values, unsorted
value_counts_unsorted(s, ties) == unique(s)

value_counts(s, ties) ==
    sort_values(unique(s), [x \in Range(s) |-> Frac(Occurrences(s, x))], ties)

\* self.transaction_data["product_used"]
product_used(frame) == [i \in DOMAIN frame.rows |-> frame.rows[i].product_used]

\* BankingRecommendationSystem._cold_start_recommendations: subscripting None
\* raises inside the try, and the handler returns the catalog names
_cold_start_recommendations(self, top_n) ==
    IF self.transaction_data.none
    THEN Take(BANKING_PRODUCTS, top_n)
    ELSE Take(value_counts(product_used(self.transaction_data), self.tie_order), top_n)

\* similarity_df[customer_id].sort_values(ascending=False).index[1:6]
\* (f @@ f is f, tabulated once)
similar_customers(m, customer_id, ties) ==
    LET column == [x \in Range(m.index) |-> cosine_similarity(m, x, customer_id)]
        ranked == sort_values(m.index, column @@ column, ties)
    IN  SubSeq(ranked, 2, Min(6, Len(ranked)))

\* the peers' sums left in column order: .sum() without the sort_values
similar_products_unsorted(m, peers, ties) == m.columns

\* customer_product_matrix.loc[similar_customers].sum().sort_values(ascending=False)
similar_products(m, peers, ties) ==
    LET sum == [p \in Range(m.columns) |->
                   Frac(SumOver(peers, [x \in Range(peers) |-> m.cell[<<x, p>>]]))]
    IN  sort_values(m.columns, sum @@ sum, ties)

\* used_products with the threshold off by one (> 1): a product used once
\* passes for unused
used_products_more_than_once(m, customer_id) ==
    {p \in Range(m.columns) : m.cell[<<customer_id, p>>] > 1}

\* the labels of the customer's row whose count is > 0
used_products(m, customer_id) == {p \in Range(m.columns) : m.cell[<<customer_id, p>>] > 0}

\* BankingRecommendationSystem._collaborative_filtering, for a customer_id of
\* the matrix index (its only caller checks that); nothing in its try block
\* raises then
_collaborative_filtering(self, customer_id, top_n) ==
    LET m == self.customer_product_matrix
        ties == self.tie_order
    IN  Take(SelectNotIn(similar_products(m, similar_customers(m, customer_id, ties), ties),
                         used_products(m, customer_id)),
             top_n)

\* extend without the membership test: recommendations.extend(popular)
extend_all(recommendations, popular) == recommendations \o popular

RECURSIVE extend(_, _)
\* recommendations.extend(p for p in popular if p not in recommendations):
\* the generator tests each p against the list as extended so far
extend(recommendations, popular) ==
    IF popular = <<>> THEN recommendations
    ELSE IF Head(popular) \in Range(recommendations)
         THEN extend(recommendations, Tail(popular))
         ELSE extend(Append(recommendations, Head(popular)), Tail(popular))

Returned(v) == [outcome |-> "returned", value |-> v]
Raised == [outcome |-> "raised", value |-> <<>>]

\* get_recommendations answering an unknown customer from the static catalog
\* instead of the popularity ranking
get_recommendations_catalog_for_unknown(self, customer_id, top_n) ==
    IF self.customer_product_matrix.none THEN Raised
    ELSE IF customer_id \in Range(self.customer_product_matrix.index)
    THEN LET recommendations == _collaborative_filtering(self, customer_id, top_n)
         IN  IF Len(recommendations) < top_n
             THEN Returned(Take(extend(recommendations,
                                       _cold_start_recommendations(self, top_n)),
                                top_n))
             ELSE Returned(recommendations)
    ELSE Returned(Take(BANKING_PRODUCTS, top_n))

\* BankingRecommendationSystem.get_recommendations; with no matrix yet,
\* None.index raises AttributeError before any fallback is tried
get_recommendations(self, customer_id, top_n) ==
    IF self.customer_product_matrix.none THEN Raised
    ELSE IF customer_id \in Range(self.customer_product_matrix.index)
    THEN LET recommendations == _collaborative_filtering(self, customer_id, top_n)
         IN  IF Len(recommendations) < top_n
             THEN Returned(Take(extend(recommendations,
                                       _cold_start_recommendations(self, top_n)),
                                top_n))
             ELSE Returned(recommendations)
    ELSE Returned(_cold_start_recommendations(self, top_n))

\* the Azure OpenAI collaborator as a call meets it: whether key, endpoint
\* and deployment name are configured, whether AzureOpenAI(...) constructs a
\* client (it raises, for one, when no api_version is configured), and how
\* chat.completions.create ends
Collaborators ==
    [configured : BOOLEAN, constructs : BOOLEAN,
     request : {"answers", "raises", "times_out"}]

\* BankingRecommendationSystem.get_azure_openai_client
get_azure_openai_client(collaborator) ==
    IF ~collaborator.configured THEN Returned("None")
    ELSE IF ~collaborator.constructs THEN Raised
    ELSE Returned("AzureOpenAI")

\* BankingRecommendationSystem.generate_message: the client is obtained
\* before the try block, the prompt and the request are inside it
generate_message(collaborator) ==
    LET openai_client == get_azure_openai_client(collaborator)
    IN  IF openai_client.outcome = "raised" THEN Raised
        ELSE IF openai_client.value = "None"
        THEN Returned("Enable AI messaging by setting API key and Azure OpenAI config")
        ELSE IF collaborator.request = "answers"
        THEN Returned("response.choices[0].message.content")
        ELSE Returned("AI Message Error: ...")

\* ----------------------------------------------------------------- state
VARIABLES transaction_data, customer_product_matrix, ret, tie_order

vars == <<transaction_data, customer_product_matrix, ret, tie_order>>

\* the object's fields, as the methods read them, and the sort of the build
\* the methods run on
Self == [transaction_data |-> transaction_data,
         customer_product_matrix |-> customer_product_matrix,
         tie_order |-> tie_order]

\* what the last call was and how it ended; again: it repeated the arguments
\* of the get_recommendations call right before it
Ret(op, customer_id, top_n, r, again) ==
    [op |-> op, customer_id |-> customer_id, top_n |-> top_n,
     outcome |-> r.outcome, value |-> r.value, again |-> again]

\* BankingRecommendationSystem.__init__
Init ==
    /\ transaction_data = NoneValue
    /\ customer_product_matrix = NoneMatrix
    /\ ret = Ret("__init__", 0, 0, Returned(<<>>), FALSE)
    /\ tie_order \in TieOrders

\* load_data(uploaded_file): read_csv assigns transaction_data, to_datetime
\* may then raise, and only after it does _preprocess_data assign the matrix
LoadData(uploaded_file) ==
    IF ~uploaded_file.given
    THEN /\ UNCHANGED <<transaction_data, customer_product_matrix, tie_order>>
         /\ ret' = Ret("load_data", 0, 0, [outcome |-> "no_data_message", value |-> <<>>], FALSE)
    ELSE IF ~uploaded_file.readable
    THEN /\ UNCHANGED <<transaction_data, customer_product_matrix, tie_order>>
         /\ ret' = Ret("load_data", 0, 0, Raised, FALSE)
    ELSE IF ~uploaded_file.parseable
    THEN /\ transaction_data' = DataFrame(uploaded_file.rows)
         /\ UNCHANGED <<customer_product_matrix, tie_order>>
         /\ ret' = Ret("load_data", 0, 0, Raised, FALSE)
    ELSE /\ transaction_data' = DataFrame(uploaded_file.rows)
         /\ customer_product_matrix' = pivot_table(uploaded_file.rows)
         /\ UNCHANGED tie_order
         /\ ret' = Ret("load_data", 0, 0, Returned(<<>>), FALSE)

\* a get_recommendations that remembers what it recommended: it marks the
\* products it returned as used in the customer's row
GetRecommendationsRemembering(customer_id, top_n) ==
    LET r == get_recommendations(Self, customer_id, top_n)
        m == customer_product_matrix
    IN  /\ ret' = Ret("get_recommendations", customer_id, top_n, r,
                      /\ ret.op = "get_recommendations"
                      /\ ret.customer_id = customer_id
                      /\ ret.top_n = top_n)
        /\ customer_product_matrix' =
               [m EXCEPT !.cell =
                   [k \in DOMAIN m.cell |->
                       IF k[1] = customer_id /\ k[2] \in Range(r.value) /\ m.cell[k] = 0
                       THEN 1 ELSE m.cell[k]]]
        /\ UNCHANGED <<transaction_data, tie_order>>

\* a caller's get_recommendations(customer_id, top_n)
GetRecommendations(customer_id, top_n) ==
    /\ ret' = Ret("get_recommendations", customer_id, top_n,
                  get_recommendations(Self, customer_id, top_n),
                  /\ ret.op = "get_recommendations"
                  /\ ret.customer_id = customer_id
                  /\ ret.top_n = top_n)
    /\ UNCHANGED <<transaction_data, customer_product_matrix, tie_order>>

\* a caller's _cold_start_recommendations(top_n) (the UI calls it directly)
ColdStart(top_n) ==
    /\ ret' = Ret("_cold_start_recommendations", 0, top_n,
                  Returned(_cold_start_recommendations(Self, top_n)), FALSE)
    /\ UNCHANGED <<transaction_data, customer_product_matrix, tie_order>>

\* a caller's generate_message(customer_data, recommended_products)
GenerateMessage(collaborator) ==
    /\ ret' = Ret("generate_message", 0, 0, generate_message(collaborator), FALSE)
    /\ UNCHANGED <<transaction_data, customer_product_matrix, tie_order>>

Next ==
    \/ \E f \in Files : LoadData(f)
    \/ \E c \in Customers, n \in TopNs : GetRecommendations(c, n)
    \/ \E n \in TopNs : ColdStart(n)
    \/ \E k \in Collaborators : GenerateMessage(k)

Spec == Init /\ [][Next]_vars

\* the state after __init__ and a load_data of a file of many customers
InitPeers ==
    \E rows \in PeerRowSeqs :
        /\ transaction_data = DataFrame(rows)
        /\ customer_product_matrix = pivot_table(rows)
        /\ ret = Ret("load_data", 0, 0, Returned(<<>>), FALSE)
        /\ tie_order \in TieOrders

\* get_recommendations' call _collaborative_filtering(customer_id, top_n),
\* made for a customer_id of the matrix index
CollaborativeFiltering(customer_id, top_n) ==
    /\ ~customer_product_matrix.none
    /\ customer_id \in Range(customer_product_matrix.index)
    /\ ret' = Ret("_collaborative_filtering", customer_id, top_n,
                  Returned(_collaborative_filtering(Self, customer_id, top_n)), FALSE)
    /\ UNCHANGED <<transaction_data, customer_product_matrix, tie_order>>

\* the queries are those of the first two customers: the first has no
\* customer before it in the index, the second has one
NextPeers == \E c \in Customers, n \in TopNs : CollaborativeFiltering(c, n)

SpecPeers == InitPeers /\ [][NextPeers]_vars

\* ---------------------------------------------------------------- claims
Called == ret.op = "get_recommendations"
Answered == Called /\ ret.outcome = "returned"
KnownCustomer ==
    /\ ~customer_product_matrix.none
    /\ ret.customer_id \in Range(customer_product_matrix.index)

RECURSIVE CountRecords(_, _, _)
\* the number of records of customer c with product p
CountRecords(rows, c, p) ==
    IF rows = <<>> THEN 0
    ELSE (IF Head(rows).customer_ID = c /\ Head(rows).product_used = p THEN 1 ELSE 0)
           + CountRecords(Tail(rows), c, p)

CustomersOf(rows) == {rows[i].customer_ID : i \in DOMAIN rows}
ProductsOf(rows) == {rows[i].product_used : i \in DOMAIN rows}

\* m is the usage matrix of the records: a row per customer with a record,
\* a column per product with a record, each once, and the records counted
IsMatrixOf(m, rows) ==
    /\ ~m.none
    /\ Range(m.index) = CustomersOf(rows)
    /\ Range(m.columns) = ProductsOf(rows)
    /\ NoDup(m.index)
    /\ NoDup(m.columns)
    /\ DOMAIN m.cell = CustomersOf(rows) \X ProductsOf(rows)
    /\ \A k \in DOMAIN m.cell : m.cell[k] = CountRecords(rows, k[1], k[2])

\* a dataset is loaded: the matrix held is the one of the records held
Loaded ==
    /\ ~transaction_data.none
    /\ IsMatrixOf(customer_product_matrix, transaction_data.rows)

\* the products with count 0 in the queried customer's row
Fresh ==
    {p \in Range(customer_product_matrix.columns) :
        customer_product_matrix.cell[<<ret.customer_id, p>>] = 0}

\* C1: for a loaded dataset and a customer of the matrix, when at least top_n
\* products have count 0 in the customer's row, get_recommendations returns
\* no product the customer already uses.
C1_NoUsedProductWhenFreshSuffice ==
    (Called /\ Loaded /\ KnownCustomer /\ Cardinality(Fresh) >= ret.top_n)
        => /\ ret.outcome = "returned"
           /\ \A i \in DOMAIN ret.value : ret.value[i] \in Fresh

C1_Witness ==
    /\ Called /\ Loaded /\ KnownCustomer
    /\ ret.top_n >= 1
    /\ Cardinality(Fresh) >= ret.top_n
    /\ Len(ret.value) = ret.top_n
    /\ Fresh # Range(customer_product_matrix.columns)

\* C2: when the similarity ranking of a known customer is shorter than top_n,
\* the result is that ranking followed by the popularity entries that are
\* neither in it nor used by the customer, in popularity order, cut to top_n.
C2_PaddingSkipsUsedProducts ==
    (Answered /\ KnownCustomer)
        => LET ranked == _collaborative_filtering(Self, ret.customer_id, ret.top_n)
               popular == _cold_start_recommendations(Self, ret.top_n)
               used == {p \in Range(customer_product_matrix.columns) :
                           customer_product_matrix.cell[<<ret.customer_id, p>>] > 0}
           IN  Len(ranked) < ret.top_n
                   => ret.value = Take(ranked \o SelectNotIn(popular, Range(ranked) \cup used),
                                       ret.top_n)

\* C3: with a matrix loaded, get_recommendations for an id that is no row of
\* it returns, without error, exactly _cold_start_recommendations(top_n).
C3_UnknownCustomerGetsColdStart ==
    (Called /\ ~customer_product_matrix.none /\ ~KnownCustomer)
        => /\ ret.outcome = "returned"
           /\ ret.value = _cold_start_recommendations(Self, ret.top_n)

C3_Witness ==
    /\ Called /\ ~customer_product_matrix.none /\ ~KnownCustomer
    /\ Len(ret.value) = 2
    /\ ret.value # Take(BANKING_PRODUCTS, 2)

\* C4: whatever path answers, the sequence get_recommendations returns has
\* at most top_n entries and no product twice.
C4_AtMostTopNNoDuplicates ==
    Answered => (Len(ret.value) <= ret.top_n /\ NoDup(ret.value))

C4_Witness ==
    /\ Answered /\ KnownCustomer
    /\ Len(_collaborative_filtering(Self, ret.customer_id, ret.top_n)) = 1
    /\ Len(ret.value) = 2
    /\ ret.top_n > 2

\* C5: with no transaction record held (nothing loaded, or a file of zero
\* records), get_recommendations returns the first top_n catalog names in
\* declared order and does not raise.
C5_EmptyDatasetGivesCatalog ==
    (Called /\ (transaction_data.none \/ transaction_data.rows = <<>>))
        => /\ ret.outcome = "returned"
           /\ ret.value = Take(BANKING_PRODUCTS, ret.top_n)

\* C6: at every point a caller can observe, also after a load_data that
\* failed part-way, the matrix is the one built from the transaction data
\* held (or neither is set).
C6_MatrixIsBuiltFromData ==
    \/ transaction_data.none /\ customer_product_matrix.none
    \/ ~transaction_data.none /\ IsMatrixOf(customer_product_matrix, transaction_data.rows)

TotalCount(p) ==
    Cardinality({i \in DOMAIN transaction_data.rows : transaction_data.rows[i].product_used = p})

\* the products of the records by descending total count, equal counts by
\* ascending name
ByCountThenName ==
    LET P == ProductsOf(transaction_data.rows)
    IN  CHOOSE r \in [1..Cardinality(P) -> P] :
            \A i, j \in DOMAIN r :
                i < j => \/ TotalCount(r[i]) > TotalCount(r[j])
                         \/ /\ TotalCount(r[i]) = TotalCount(r[j])
                            /\ NameRank(r[i]) < NameRank(r[j])

ColdStarted ==
    /\ ret.op = "_cold_start_recommendations"
    /\ ~transaction_data.none
    /\ transaction_data.rows # <<>>

\* C7 as stated: on a non-empty dataset _cold_start_recommendations returns
\* the first top_n products by descending total count, equal counts by
\* ascending product name.
C7_ByCountThenByName ==
    ColdStarted => ret.value = Take(ByCountThenName, ret.top_n)

\* C7 as amended: it returns min(top_n, number of distinct products) distinct
\* products of the records in descending order of total count, none left out
\* having a higher count than one returned; the order among equal counts is
\* not fixed by the names.
C7_ByCountDescending ==
    ColdStarted =>
        /\ NoDup(ret.value)
        /\ Range(ret.value) \subseteq ProductsOf(transaction_data.rows)
        /\ Len(ret.value) = Min(ret.top_n, Cardinality(ProductsOf(transaction_data.rows)))
        /\ \A i, j \in DOMAIN ret.value :
               i < j => TotalCount(ret.value[i]) >= TotalCount(ret.value[j])
        /\ \A p \in ProductsOf(transaction_data.rows) \ Range(ret.value) :
               \A i \in DOMAIN ret.value : TotalCount(p) <= TotalCount(ret.value[i])

C7_Witness ==
    /\ ColdStarted
    /\ Len(ret.value) = 2
    /\ TotalCount(ret.value[1]) > TotalCount(ret.value[2])
    /\ NameRank(ret.value[1]) > NameRank(ret.value[2])

\* C8: when the dataset holds one customer with one product, every
\* get_recommendations for that customer returns the empty list.
C8_SingleCustomerSingleProductIsEmpty ==
    (Called /\ Loaded /\ KnownCustomer
       /\ Len(customer_product_matrix.index) = 1
       /\ Len(customer_product_matrix.columns) = 1)
        => /\ ret.outcome = "returned"
           /\ ret.value = <<>>

\* C9: a get_recommendations call leaves transaction_data and the matrix as
\* they were, and a call that repeats the arguments of the call before it
\* ends the same way with the same sequence.
C9_RepeatedCallSameResult ==
    [][(ret'.op = "get_recommendations")
          => /\ transaction_data' = transaction_data
             /\ customer_product_matrix' = customer_product_matrix
             /\ ret'.again => (ret'.outcome = ret.outcome /\ ret'.value = ret.value)]_vars

C9_Witness ==
    /\ Answered /\ ret.again /\ KnownCustomer
    /\ Len(ret.value) = 2

RowOrders(rows) ==
    {[i \in DOMAIN rows |-> rows[f[i]]] :
        f \in {g \in [DOMAIN rows -> DOMAIN rows] :
                  \A a, b \in DOMAIN rows : g[a] = g[b] => a = b}}

\* C10: after load_data of a non-empty record set the matrix has one row per
\* customer and one column per product of the records, every cell is the
\* number of records of that customer and product, every row sum is > 0, and
\* every permutation of the records builds the same matrix.
C10_MatrixCountsRecords ==
    (ret.op = "load_data" /\ ret.outcome = "returned" /\ transaction_data.rows # <<>>)
        => /\ IsMatrixOf(customer_product_matrix, transaction_data.rows)
           /\ \A c \in Range(customer_product_matrix.index) :
                  \E p \in Range(customer_product_matrix.columns) :
                      customer_product_matrix.cell[<<c, p>>] > 0
           /\ \A permuted \in RowOrders(transaction_data.rows) :
                  pivot_table(permuted) = customer_product_matrix

C10_Witness ==
    /\ ret.op = "load_data" /\ ret.outcome = "returned"
    /\ Len(customer_product_matrix.index) = 2
    /\ \E k \in DOMAIN customer_product_matrix.cell : customer_product_matrix.cell[k] = 2
    /\ \E k \in DOMAIN customer_product_matrix.cell : customer_product_matrix.cell[k] = 0

\* C11: generate_message returns a string whatever the text-generation
\* collaborator does (configuration missing, client construction fails,
\* request raises or times out), a tagged placeholder or failure string in
\* the failing cases, and get_recommendations on a loaded matrix returns
\* whatever state the collaborator is in.
C11_GenerateMessageNeverRaises ==
    /\ ret.op = "generate_message"
           => /\ ret.outcome = "returned"
              /\ ret.value \in {"Enable AI messaging by setting API key and Azure OpenAI config",
                                "AI Message Error: ...",
                                "response.choices[0].message.content"}
    /\ (Called /\ ~customer_product_matrix.none) => ret.outcome = "returned"

\* C12: for a loaded non-empty dataset and every customer id, known or not,
\* get_recommendations(id, 0) returns the empty sequence without raising, and
\* the padding branch is not entered.
C12_TopNZeroIsEmpty ==
    (Called /\ Loaded /\ transaction_data.rows # <<>> /\ ret.top_n = 0)
        => /\ ret.outcome = "returned"
           /\ ret.value = <<>>
           /\ KnownCustomer
                 => ~(Len(_collaborative_filtering(Self, ret.customer_id, 0)) < ret.top_n)

C12_Witness ==
    /\ Called /\ Loaded /\ KnownCustomer
    /\ ret.top_n = 0
    /\ Fresh # {}
    /\ ret.value = <<>>

\* C13: for a loaded non-empty dataset and a top_n greater than its number of
\* distinct products, get_recommendations returns without error every
\* available product exactly once: all distinct products of the records for
\* an unknown customer, the products the customer does not use for a known
\* one.
C13_TopNBeyondProductsGivesAllAvailable ==
    (Called /\ Loaded /\ transaction_data.rows # <<>>
       /\ ret.top_n > Cardinality(ProductsOf(transaction_data.rows)))
        => /\ ret.outcome = "returned"
           /\ NoDup(ret.value)
           /\ Range(ret.value) =
                  IF KnownCustomer THEN Fresh ELSE ProductsOf(transaction_data.rows)

CFCalled == ret.op = "_collaborative_filtering"

\* the peers the call selected, and the products of the queried customer
SelectedPeers == similar_customers(customer_product_matrix, ret.customer_id, tie_order)
UsedByCustomer ==
    {p \in Range(customer_product_matrix.columns) :
        customer_product_matrix.cell[<<ret.customer_id, p>>] > 0}

RECURSIVE UsageBy(_, _)
\* the usage count of product p summed over the customers of the sequence
UsageBy(customers, p) ==
    IF customers = <<>> THEN 0
    ELSE customer_product_matrix.cell[<<Head(customers), p>>] + UsageBy(Tail(customers), p)

UsageByPeers(p) == UsageBy(SelectedPeers, p)

\* C14: _collaborative_filtering returns only products with a summed count
\* > 0 over the selected peers; when the customer uses every product a peer
\* uses, or has no peers, it returns the empty sequence, whatever other
\* columns the matrix has.
C14_OnlyProductsUsedByPeers ==
    CFCalled => \A i \in DOMAIN ret.value : UsageByPeers(ret.value[i]) > 0

Similarity(x) == cosine_similarity(customer_product_matrix, x, ret.customer_id)
\* x ranks before y: more similar, or as similar with the smaller id
Closer(x, y) ==
    \/ Gt(Similarity(x), Similarity(y))
    \/ ~Gt(Similarity(y), Similarity(x)) /\ x < y

\* C15: the peers of _collaborative_filtering(c, top_n) are exactly the (up
\* to) five customers other than c most similar to c, equal similarities by
\* ascending customer id; c is never one of them.
C15_PeersAreTopFiveOthers ==
    CFCalled =>
        LET others == Range(customer_product_matrix.index) \ {ret.customer_id}
            peers == Range(SelectedPeers)
        IN  /\ ret.customer_id \notin peers
            /\ peers \subseteq others
            /\ Cardinality(peers) = Min(5, Cardinality(others))
            /\ \A x \in peers : \A y \in others \ peers : Closer(x, y)

\* the columns by descending usage summed over the selected peers, equal
\* sums by ascending name
ByPeerUsageThenName ==
    LET P == Range(customer_product_matrix.columns)
    IN  CHOOSE r \in [1..Cardinality(P) -> P] :
            \A i, j \in DOMAIN r :
                i < j => \/ UsageByPeers(r[i]) > UsageByPeers(r[j])
                         \/ /\ UsageByPeers(r[i]) = UsageByPeers(r[j])
                            /\ NameRank(r[i]) < NameRank(r[j])

\* C16 as stated: _collaborative_filtering returns the first top_n of the
\* products ordered by usage summed over the selected peers, descending,
\* equal sums by ascending name, with the customer's own products removed.
C16_BySumThenByName ==
    CFCalled => ret.value = Take(SelectNotIn(ByPeerUsageThenName, UsedByCustomer), ret.top_n)

\* C16 as amended: it returns min(top_n, number of unused columns) distinct
\* products the customer does not use, in descending order of the usage
\* summed over the selected peers, none left out having a higher sum than one
\* returned (a descending order of all columns with the used ones removed);
\* the order among equal sums is not fixed by the names.
C16_BySumDescending ==
    CFCalled =>
        LET unused == Range(customer_product_matrix.columns) \ UsedByCustomer
        IN  /\ NoDup(ret.value)
            /\ Range(ret.value) \subseteq unused
            /\ Len(ret.value) = Min(ret.top_n, Cardinality(unused))
            /\ \A i, j \in DOMAIN ret.value :
                   i < j => UsageByPeers(ret.value[i]) >= UsageByPeers(ret.value[j])
            /\ \A p \in unused \ Range(ret.value) :
                   \A i \in DOMAIN ret.value : UsageByPeers(p) <= UsageByPeers(ret.value[i])

C16_Witness ==
    /\ CFCalled
    /\ Len(ret.value) = 2
    /\ UsageByPeers(ret.value[1]) > UsageByPeers(ret.value[2])
    /\ NameRank(ret.value[1]) > NameRank(ret.value[2])
    /\ Len(SelectedPeers) = 5
    /\ Len(customer_product_matrix.index) > 6

====
